---- MODULE Spec2Model ----
(***************************************************************************)
(* A model of auction.py: auctions, bidders and bids kept in a             *)
(* transactional ordered key-value store (FoundationDB), every operation   *)
(* an @fdb.transactional function.                                         *)
(*                                                                         *)
(* The store is a finite map from keys to values; a key is the tuple that  *)
(* the tuple layer packs (the subspace name first), and a missing key is   *)
(* one outside the map's domain.  A transaction reads one snapshot, runs   *)
(* its body on it, and commits its writes unless a key it read was written *)
(* by a transaction that committed after the snapshot; then the decorator  *)
(* runs the body again.  A body that wrote nothing has nothing to commit.  *)
(*                                                                         *)
(* Numbers.  A bid value is a float; it is modelled by a natural number of *)
(* "fine" units.  str(float) of Python 2 keeps 12 significant digits: one  *)
(* unit of the last digit it keeps is StrStep fine units, and the text it  *)
(* gives is modelled by the number of such units.  '%.2f' keeps cents: one *)
(* cent is CentStep fine units.                                            *)
(***************************************************************************)
EXTENDS Integers, Sequences, FiniteSets, TLC

\* ------------------------------------------------------------------ bounds

\* The calls made in one run, over all threads.
MaxCalls == 4

\* The threads that call the operations.
Threads == {"t1", "t2"}

\* Auction(name, description).id_tuple over the auctions of a run.
Auctions == {<<"pen", "blue pen">>, <<"cake", "delicious, delicious cake">>}

\* The auction most bids are made on.
Pen == <<"pen", "blue pen">>

\* Bidder names; the empty name is the initial value of winning_bidder.
Bidders == {"", "A", "B"}

\* Fine units in one unit of the last digit str(float) keeps.
StrStep == 3

\* Fine units in one cent, the last digit '%.2f' keeps.
CentStep == 9

\* Bid values, in fine units: 0, one cent, one cent and a remainder below
\* the precision of str(), two cents.
Amounts == {0, 9, 10, 18}

\* -------------------------------------------------------------- conversions

\* str(bid.value): the float rounded to the digits str() keeps.
PyStrFloat(v) == (2 * v + StrStep) \div (2 * StrStep)

\* float(str(tr[highest_bid_key])): the float a stored text denotes.
PyFloat(s) == s * StrStep

\* "$%.2f" % value: the float rounded to cents.
PyFmt2f(v) == (2 * v + CentStep) \div (2 * CentStep)

\* str(bid_number), and int() of a stored counter: decimal digits of an int,
\* modelled by the successor-free pair <<"int", n>>.
PyStrInt(n) == <<"int", n>>

PyInt(s) == s[2]

\* tuple(self.name): the characters of a bidder's name.
Chars(name) ==
  CASE name = "" -> <<>>
    [] name = "A" -> <<"A">>
    [] name = "B" -> <<"B">>
    [] name = "C" -> <<"C">>

\* Bidder.__str__
BidderStr(b) == <<"Bidder", b>>

\* Bid.__str__: bidder name, auction name, description, value as '%.2f'.
BidStr(bid) ==
  [bidder |-> bid.bidder, name |-> bid.auction[1],
   description |-> bid.auction[2], value |-> PyFmt2f(bid.value)]

\* --------------------------------------------------------------------- keys

\* auctions_ss.pack(auction.id_tuple)
AuctionKey(a) == <<"auctions", a[1], a[2]>>

HighestBidKey(a) == <<"auctions", a[1], a[2], "highest_bid">>

WinningBidderKey(a) == <<"auctions", a[1], a[2], "winning_bidder">>

NumBidsKey(a) == <<"auctions", a[1], a[2], "num_bids">>

\* bidders_ss.pack(bidder.id_tuple), id_tuple being tuple(name)
BidderKey(b) == <<"bidders">> \o Chars(b)

BidderNumBidsKey(b) == <<"bidders", b, "num_bids">>

\* bids_ss[scope_key][n]
BidLogKey(scope, n) == <<"bids", scope, n>>

\* ---------------------------------------------------------- the transaction

EmptyKV == [k \in {} |-> 0]

\* tr[key] = value on a map of writes (or on the store at commit).
Put(w, k, v) == [x \in DOMAIN w \cup {k} |-> IF x = k THEN v ELSE w[x]]

\* tr[key].present() on snapshot s under the writes w made so far.
Present(s, w, k) == k \in DOMAIN w \/ k \in DOMAIN s

\* tr[key] on snapshot s under the writes w made so far.
Get(s, w, k) == IF k \in DOMAIN w THEN w[k] ELSE s[k]

\* What one run of a body gives: the branch it took (tag) with the value it
\* returned (val), the keys it read, the writes it made, what it printed.
Ran(tag, val, reads, writes, out) ==
  [tag |-> tag, val |-> val, reads |-> reads, writes |-> writes, out |-> out]

\* A store that detects no conflict.
NoReadConflict(reads, writes) == FALSE

\* Whether a committed write set invalidates a pending transaction's reads:
\* the store's conflict check behind @fdb.transactional.
ReadConflict(reads, writes) == reads \cap DOMAIN writes # {}

\* The store after a transaction's writes are committed.
Apply(s, w) ==
  [k \in DOMAIN s \cup DOMAIN w |-> IF k \in DOMAIN w THEN w[k] ELSE s[k]]

\* ------------------------------------------------------------ the operations

\* The conditions of the bodies, one operator per test of the source.
\* A body that never sees a closed auction.
NeverClosed(status) == FALSE

IsClosed(status) == status = "CLOSED"

IsOpen(status) == status = "OPEN"

\* A body that lets an equal bid through.
TooLowStrict(value, highest) == value < PyFloat(highest)

TooLow(value, highest) == value <= PyFloat(highest)

\* A body that never sees the bidder winning.
NeverHighestBidder(name, winner) == FALSE

AlreadyHighestBidder(name, winner) == name = winner

\* A body that forgets to increment.
SameNumber(text) == PyInt(text)

NextNumber(text) == PyInt(text) + 1

\* The literal '0' that add_auction stores as the highest bid.
ZeroText == PyStrFloat(0)

\* The writes of add_auction.
NewAuction(a) ==
  Put(Put(Put(Put(EmptyKV, AuctionKey(a), "OPEN"),
                  HighestBidKey(a), ZeroText),
              WinningBidderKey(a), ""),
          NumBidsKey(a), PyStrInt(0))

\* A body that does not look for the auction.
add_auction_blind(s, a) == Ran("Ok", <<>>, {AuctionKey(a)}, NewAuction(a), <<>>)

add_auction_body(s, a) ==
  IF Present(s, EmptyKV, AuctionKey(a))
  THEN Ran("AlreadyExists", <<>>, {AuctionKey(a)}, EmptyKV, <<"AlreadyExists">>)
  ELSE Ran("Ok", <<>>, {AuctionKey(a)}, NewAuction(a), <<>>)

close_auction_body(s, a) ==
  IF ~Present(s, EmptyKV, AuctionKey(a))
  THEN Ran("NotFound", <<>>, {AuctionKey(a)}, EmptyKV, <<"NotFound">>)
  ELSE Ran("Ok", <<>>, {AuctionKey(a)},
           Put(EmptyKV, AuctionKey(a), "CLOSED"), <<>>)

\* The print of the absent branch names `bid`, which is not defined in
\* is_auction_open: the branch raises NameError and prints nothing.
is_auction_open_body(s, a) ==
  IF ~Present(s, EmptyKV, AuctionKey(a))
  THEN Ran("NameError", <<>>, {AuctionKey(a)}, EmptyKV, <<>>)
  ELSE Ran("Value", <<IsOpen(Get(s, EmptyKV, AuctionKey(a)))>>,
           {AuctionKey(a)}, EmptyKV, <<>>)

winning_bid_body(s, a) ==
  IF ~Present(s, EmptyKV, AuctionKey(a))
  THEN Ran("NameError", <<>>, {AuctionKey(a)}, EmptyKV, <<>>)
  ELSE Ran("Value",
           <<Get(s, EmptyKV, WinningBidderKey(a)),
             Get(s, EmptyKV, HighestBidKey(a))>>,
           {AuctionKey(a), WinningBidderKey(a), HighestBidKey(a)},
           EmptyKV, <<>>)

add_bidder_body(s, b) ==
  IF Present(s, EmptyKV, BidderKey(b))
  THEN Ran("AlreadyExists", <<>>, {BidderKey(b)}, EmptyKV, <<"AlreadyExists">>)
  ELSE Ran("Ok", <<>>, {BidderKey(b)},
           Put(Put(EmptyKV, BidderKey(b), BidderStr(b)),
               BidderNumBidsKey(b), PyStrInt(0)),
           <<>>)

\* The writes of submit_bid in the auctions subspace and the auction's log
\* (lines 190-199), made before the bidder's counter is read.
AuctionWrites(s, bid) ==
  LET a == bid.auction
      bid_number == NextNumber(Get(s, EmptyKV, NumBidsKey(a)))
      w1 == Put(EmptyKV, HighestBidKey(a), PyStrFloat(bid.value))
      w2 == Put(w1, WinningBidderKey(a), bid.bidder)
      w3 == Put(w2, NumBidsKey(a), PyStrInt(bid_number))
  IN Put(w3, BidLogKey(AuctionKey(a), bid_number), BidStr(bid))

\* A body that leaves the bidder's counter and log alone.
NoBidderWrites(s, w, bid) == w

\* The writes of submit_bid for the bidder (lines 202-205), on top of w.
BidderWrites(s, w, bid) ==
  LET b == bid.bidder
      bidder_bid_number == NextNumber(Get(s, w, BidderNumBidsKey(b)))
      w5 == Put(w, BidderNumBidsKey(b), PyStrInt(bidder_bid_number))
  IN Put(w5, BidLogKey(BidderKey(b), bidder_bid_number), BidStr(bid))

\* A decorator that commits what a body wrote before it raised.
KeepWrites(w) == w

\* An exception that is not the store's leaves the decorator before
\* tr.commit(): the writes the body made so far are dropped.
Raise(w) == EmptyKV

\* A body that makes the auction's writes before it looks at the winner.
submit_bid_writes_first(s, bid) ==
  LET a == bid.auction
      b == bid.bidder
      k == {AuctionKey(a), HighestBidKey(a), WinningBidderKey(a), NumBidsKey(a),
            BidderNumBidsKey(b)}
  IN IF ~Present(s, EmptyKV, AuctionKey(a))
     THEN Ran("NotFound", <<>>, k, EmptyKV, <<"NotFound">>)
     ELSE IF IsClosed(Get(s, EmptyKV, AuctionKey(a)))
     THEN Ran("AuctionClosed", <<>>, k, EmptyKV, <<"AuctionClosed">>)
     ELSE IF TooLow(bid.value, Get(s, EmptyKV, HighestBidKey(a)))
     THEN Ran("BidTooLow", <<>>, k, EmptyKV, <<"BidTooLow">>)
     ELSE IF AlreadyHighestBidder(b, Get(s, EmptyKV, WinningBidderKey(a)))
     THEN Ran("AlreadyWinning", <<>>, k, AuctionWrites(s, bid),
              <<"AlreadyWinning">>)
     ELSE IF ~Present(s, EmptyKV, BidderNumBidsKey(b))
     THEN Ran("TypeError", <<>>, k, Raise(AuctionWrites(s, bid)),
              <<"NewHighestBid">>)
     ELSE Ran("Accepted", <<>>, k, BidderWrites(s, AuctionWrites(s, bid), bid),
              <<"NewHighestBid">>)

\* int(tr[bidder_num_bids_key]) of a missing key is int(None): TypeError
\* leaves the decorator, which commits nothing; line 196 has printed by then.
submit_bid_body(s, bid) ==
  LET a == bid.auction
      b == bid.bidder
      k0 == {AuctionKey(a)}
      k1 == k0 \cup {HighestBidKey(a)}
      k2 == k1 \cup {WinningBidderKey(a)}
      k3 == k2 \cup {NumBidsKey(a), BidderNumBidsKey(b)}
  IN IF ~Present(s, EmptyKV, AuctionKey(a))
     THEN Ran("NotFound", <<>>, k0, EmptyKV, <<"NotFound">>)
     ELSE IF IsClosed(Get(s, EmptyKV, AuctionKey(a)))
     THEN Ran("AuctionClosed", <<>>, k0, EmptyKV, <<"AuctionClosed">>)
     ELSE IF TooLow(bid.value, Get(s, EmptyKV, HighestBidKey(a)))
     THEN Ran("BidTooLow", <<>>, k1, EmptyKV, <<"BidTooLow">>)
     ELSE IF AlreadyHighestBidder(b, Get(s, EmptyKV, WinningBidderKey(a)))
     THEN Ran("AlreadyWinning", <<>>, k2, EmptyKV, <<"AlreadyWinning">>)
     ELSE LET w == AuctionWrites(s, bid)
          IN IF ~Present(s, w, BidderNumBidsKey(b))
             THEN Ran("TypeError", <<>>, k3, Raise(w), <<"NewHighestBid">>)
             ELSE Ran("Accepted", <<>>, k3, BidderWrites(s, w, bid),
                      <<"NewHighestBid">>)

\* A call: the operation and its arguments (those it does not take are blank).
Call(op, a, b, v) == [op |-> op, auction |-> a, bidder |-> b, value |-> v]

NoCall == Call("none", <<"", "">>, "", 0)

AuctionCall(op, a) == Call(op, a, "", 0)

Body(s, c) ==
  CASE c.op = "add_auction" -> add_auction_body(s, c.auction)
    [] c.op = "close_auction" -> close_auction_body(s, c.auction)
    [] c.op = "is_auction_open" -> is_auction_open_body(s, c.auction)
    [] c.op = "winning_bid" -> winning_bid_body(s, c.auction)
    [] c.op = "add_bidder" -> add_bidder_body(s, c.bidder)
    [] c.op = "submit_bid" ->
         submit_bid_body(s, [bidder |-> c.bidder, auction |-> c.auction,
                             value |-> c.value])

\* The store after the calls of a sequence are run one after the other.
RECURSIVE RunAll(_, _)
RunAll(s, calls) ==
  IF calls = <<>> THEN s
  ELSE RunAll(Apply(s, Body(s, Head(calls)).writes), Tail(calls))

\* simulate_auction adds the auctions before it starts the threads, and each
\* thread registers its bidder before it bids.
Setup ==
  <<AuctionCall("add_auction", <<"pen", "blue pen">>),
    AuctionCall("add_auction", <<"cake", "delicious, delicious cake">>),
    Call("add_bidder", <<"", "">>, "A", 0),
    Call("add_bidder", <<"", "">>, "B", 0)>>

\* --------------------------------------------------------------------- state

VARIABLES
  store,       \* the committed key-value store
  pc,          \* per thread: "idle", "planned" (a call is set, not begun),
               \* "ran" (the body ran and wrote, the commit is to come)
  call,        \* per thread: the call in progress
  ran,         \* per thread: the pending run of the body; its out holds what
               \* all the runs of the call printed
  conflicted,  \* per thread: a key it read was written by a later commit
  ncalls,      \* the calls made so far
  plan,        \* per thread: the call a "planned" thread is to make
  last,        \* the last step: which call, how it ended
  accepted,    \* history: the bids of the committed submit_bid calls, in order
  closed,      \* history: the auctions a committed close_auction closed
  seqStore,    \* history: the store of the calls run one at a time, each at
               \* its commit
  script,      \* the calls a driver makes one after the other (ncalls of
               \* them are made), <<>> when the threads call what they like
  packed       \* the keys packed so far, each with the bytes it was packed to

vars == <<store, pc, call, ran, conflicted, ncalls, plan, last, accepted, closed,
          seqStore, script, packed>>

NoRun == Ran("none", <<>>, {}, EmptyKV, <<>>)

\* kind: "run" (the body ran and waits to commit), "return" (the body ran,
\* wrote nothing or raised, and the call returned), "commit" (the writes were
\* committed and the call returned).  printed: what the runs of the call
\* printed so far.
Last(kind, c, tag, val, p) ==
  [kind |-> kind, call |-> c, tag |-> tag, val |-> val, printed |-> p]

\* Everything but the store, the threads' plans and the driver's script, for
\* the threads T.
Begin(T) ==
  /\ packed = <<>>
  /\ call = [t \in T |-> NoCall]
  /\ ran = [t \in T |-> NoRun]
  /\ conflicted = [t \in T |-> FALSE]
  /\ ncalls = 0
  /\ last = Last("none", NoCall, "none", <<>>, <<>>)
  /\ accepted = <<>>
  /\ closed = {}
  /\ seqStore = store

\* The store is empty (line 303) and the threads call what they like.
Init ==
  /\ store = EmptyKV
  /\ pc = [t \in Threads |-> "idle"]
  /\ plan = [t \in Threads |-> NoCall]
  /\ script = <<>>
  /\ Begin(Threads)

\* One run of the body of call c by thread t on the committed store; before
\* is what earlier runs of the same call printed.  A body that wrote nothing
\* (or raised) has nothing to commit, and the call returns.
RunBody(t, c, before) ==
  LET r == Body(store, c)
      p == before \o r.out
  IN /\ IF DOMAIN r.writes = {}
        THEN /\ pc' = [pc EXCEPT ![t] = "idle"]
             /\ call' = [call EXCEPT ![t] = NoCall]
             /\ ran' = [ran EXCEPT ![t] = NoRun]
             /\ last' = Last("return", c, r.tag, r.val, p)
        ELSE /\ pc' = [pc EXCEPT ![t] = "ran"]
             /\ call' = [call EXCEPT ![t] = c]
             /\ ran' = [ran EXCEPT ![t] = [r EXCEPT !.out = p]]
             /\ last' = Last("run", c, r.tag, r.val, p)
     /\ conflicted' = [conflicted EXCEPT ![t] = FALSE]
     /\ UNCHANGED <<store, plan, accepted, closed, seqStore, script, packed>>

Invoke(t, c) ==
  /\ pc[t] = "idle"
  /\ ncalls < MaxCalls
  /\ ncalls' = ncalls + 1
  /\ RunBody(t, c, <<>>)

add_auction(t) ==
  \E a \in Auctions : Invoke(t, AuctionCall("add_auction", a))

close_auction(t) ==
  \E a \in Auctions : Invoke(t, AuctionCall("close_auction", a))

is_auction_open(t) ==
  \E a \in Auctions : Invoke(t, AuctionCall("is_auction_open", a))

winning_bid(t) ==
  \E a \in Auctions : Invoke(t, AuctionCall("winning_bid", a))

add_bidder(t) ==
  \E b \in Bidders : Invoke(t, Call("add_bidder", <<"", "">>, b, 0))

submit_bid(t) ==
  \E a \in Auctions, b \in Bidders, v \in Amounts :
    Invoke(t, Call("submit_bid", a, b, v))

\* The commit of a body that wrote: it succeeds when nothing the body read
\* has been written since, and the call returns.
Commit(t) ==
  /\ pc[t] = "ran"
  /\ ~conflicted[t]
  /\ LET c == call[t]
     IN /\ store' = Apply(store, ran[t].writes)
        /\ seqStore' = Apply(seqStore, Body(seqStore, c).writes)
        /\ last' = Last("commit", c, ran[t].tag, ran[t].val, ran[t].out)
        /\ accepted' = IF c.op = "submit_bid"
                       THEN Append(accepted, [bidder |-> c.bidder,
                                              auction |-> c.auction,
                                              value |-> c.value])
                       ELSE accepted
        /\ closed' = IF c.op = "close_auction"
                     THEN closed \cup {c.auction} ELSE closed
  /\ conflicted' =
       [u \in DOMAIN pc |->
          IF u # t /\ pc[u] = "ran" /\ ReadConflict(ran[u].reads, ran[t].writes)
          THEN TRUE ELSE conflicted[u]]
  /\ pc' = [pc EXCEPT ![t] = "idle"]
  /\ call' = [call EXCEPT ![t] = NoCall]
  /\ ran' = [ran EXCEPT ![t] = NoRun]
  /\ UNCHANGED <<ncalls, plan, script, packed>>

\* A decorator that does not run the body again.
NoRetry(t) == FALSE /\ UNCHANGED vars

\* The commit fails with a conflict and the decorator runs the body again.
Retry(t) ==
  /\ pc[t] = "ran"
  /\ conflicted[t]
  /\ RunBody(t, call[t], ran[t].out)
  /\ UNCHANGED ncalls

Next ==
  \E t \in Threads :
    \/ add_auction(t)
    \/ close_auction(t)
    \/ is_auction_open(t)
    \/ winning_bid(t)
    \/ add_bidder(t)
    \/ submit_bid(t)
    \/ Commit(t)
    \/ Retry(t)

Spec == Init /\ [][Next]_vars

\* ------------------------------------------------------- the bidding phase

\* The calls of the bidding phase: bids on the pen by every bidder, one bid
\* on the cake, the close of the pen, and calls that repeat the set-up.
BiddingCalls ==
  {Call("submit_bid", <<"pen", "blue pen">>, b, v) : b \in Bidders, v \in Amounts}
  \cup {Call("submit_bid", <<"cake", "delicious, delicious cake">>, "A", 9),
        AuctionCall("close_auction", <<"pen", "blue pen">>),
        AuctionCall("add_auction", <<"pen", "blue pen">>),
        Call("add_bidder", <<"", "">>, "A", 0)}

bidding(t) == \E c \in BiddingCalls : Invoke(t, c)

\* The driver has set up the auctions and the bidders A and B.
InitBids ==
  /\ store = RunAll(EmptyKV, Setup)
  /\ pc = [t \in Threads |-> "idle"]
  /\ plan = [t \in Threads |-> NoCall]
  /\ script = <<>>
  /\ Begin(Threads)

NextBids ==
  \E t \in Threads :
    \/ bidding(t)
    \/ Commit(t)
    \/ Retry(t)

SpecBids == InitBids /\ [][NextBids]_vars

\* ------------------------------------------------------------ the stress run

\* The threads of the stress run, and the bidder each one bids for.
StressBidder == [t1 |-> "A", t2 |-> "B", t3 |-> "C"]

StressThreads == DOMAIN StressBidder

StressSetup == Setup \o <<Call("add_bidder", <<"", "">>, "C", 0)>>

\* Each thread is to make one bid on the same auction, all amounts different
\* and above 0.
StressPlans ==
  {p \in [StressThreads -> {Call("submit_bid", a, b, v) :
                             a \in Auctions, b \in {"A", "B", "C"},
                             v \in Amounts \ {0}}] :
     \A t, u \in StressThreads :
       /\ p[t].bidder = StressBidder[t]
       /\ p[t].auction = p[u].auction
       /\ t # u => p[t].value # p[u].value}

\* running_bidder's call of submit_bid (line 248), once per thread.
start(t) ==
  /\ pc[t] = "planned"
  /\ ncalls' = ncalls + 1
  /\ RunBody(t, plan[t], <<>>)

InitStress ==
  /\ store = RunAll(EmptyKV, StressSetup)
  /\ pc = [t \in StressThreads |-> "planned"]
  /\ plan \in StressPlans
  /\ script = <<>>
  /\ Begin(StressThreads)

NextStress ==
  \E t \in StressThreads :
    \/ start(t)
    \/ Commit(t)
    \/ Retry(t)

SpecStress == InitStress /\ [][NextStress]_vars

\* ----------------------------------------------------------------- the race

\* Each thread is to bid on the pen or to close it.
RacePlans ==
  {p \in [StressThreads -> {Call("submit_bid", Pen, b, v) :
                             b \in {"A", "B", "C"}, v \in {9, 18}}
                           \cup {AuctionCall("close_auction", Pen)}] :
     \A t \in StressThreads :
       p[t].op = "submit_bid" =>
         /\ p[t].bidder = StressBidder[t]
         /\ p[t].value = IF t = "t2" THEN 18 ELSE 9}

InitRace ==
  /\ store = RunAll(EmptyKV, StressSetup)
  /\ pc = [t \in StressThreads |-> "planned"]
  /\ plan \in RacePlans
  /\ script = <<>>
  /\ Begin(StressThreads)

SpecRace == InitRace /\ [][NextStress]_vars

\* A started thread makes its call, and a thread inside the decorator goes
\* on: its loop commits, or runs the body again after a conflict.
FairRace ==
  SpecRace /\ \A t \in StressThreads :
                WF_vars(start(t)) /\ WF_vars(Commit(t)) /\ WF_vars(Retry(t))

\* ------------------------------------------------------ the driver's script

\* The thread that makes its calls one after the other, as simulate_auction
\* does on the main thread.
Driver == {"main"}

ScriptBids ==
  {Call("submit_bid", Pen, b, v) : b \in {"A", "B"}, v \in {9, 18}}

\* The auction is created, the bidders A and B are registered, three bids are
\* made.
Scripts ==
  {<<AuctionCall("add_auction", Pen),
     Call("add_bidder", <<"", "">>, "A", 0),
     Call("add_bidder", <<"", "">>, "B", 0),
     x, y, z>> : x \in ScriptBids, y \in ScriptBids, z \in ScriptBids}

\* The driver makes the next call of its script when the last has returned.
next_call(t) ==
  /\ pc[t] = "idle"
  /\ ncalls < Len(script)
  /\ ncalls' = ncalls + 1
  /\ RunBody(t, script[ncalls + 1], <<>>)

InitScript ==
  /\ store = EmptyKV
  /\ pc = [t \in Driver |-> "idle"]
  /\ plan = [t \in Driver |-> NoCall]
  /\ script \in Scripts
  /\ Begin(Driver)

\* One thread: no commit of another can invalidate its reads.
NextScript ==
  \E t \in Driver :
    \/ next_call(t)
    \/ Commit(t)

SpecScript == InitScript /\ [][NextScript]_vars

\* -------------------------------------------------------------- the listings

\* A range read that takes every key of the bids subspace.
AllLogKeys(s, scope) == {k \in DOMAIN s : k[1] = "bids"}

\* The keys of the log of a scope (an auction's or a bidder's packed key):
\* what bids_ss[scope].range() covers.
LogKeys(s, scope) == {k \in DOMAIN s : k[1] = "bids" /\ k[2] = scope}

LogNumbers(s, scope) == {k[3] : k \in LogKeys(s, scope)}

\* Keys in the order of the store: the tuple layer packs an integer so that
\* the packed keys of one scope sort by the number.
RECURSIVE InKeyOrder(_)
InKeyOrder(K) ==
  IF K = {} THEN <<>>
  ELSE LET first == CHOOSE k \in K : \A j \in K : k[3] <= j[3]
       IN <<first>> \o InKeyOrder(K \ {first})

\* tr[bids_ss[scope].range()]: the pairs (key, value) of the range, in order.
RangeRead(s, scope) ==
  LET keys == InKeyOrder(LogKeys(s, scope))
  IN [i \in 1..Len(keys) |-> <<keys[i], s[keys[i]]>>]

\* The scope a listing reads: auctions_ss.pack(auction.id_tuple) or
\* bidders_ss.pack(bidder.id_tuple).
ListScope(c) ==
  IF c.op = "bids_for_auction" THEN AuctionKey(c.auction) ELSE BidderKey(c.bidder)

\* bids_for_auction and bids_for_bidder are generator functions: the call
\* runs no line of the body, the decorator commits a transaction that read
\* and wrote nothing and hands the generator back.
ListCall(t, c) ==
  /\ pc[t] = "idle"
  /\ ncalls < MaxCalls
  /\ ncalls' = ncalls + 1
  /\ pc' = [pc EXCEPT ![t] = "lazy"]
  /\ call' = [call EXCEPT ![t] = c]
  /\ last' = Last("generator", c, "none", <<>>, <<>>)
  /\ UNCHANGED <<store, ran, conflicted, plan, accepted, closed, seqStore,
                 script, packed>>

bids_for_auction(t) ==
  \E a \in Auctions : ListCall(t, AuctionCall("bids_for_auction", a))

bids_for_bidder(t) ==
  \E b \in Bidders : ListCall(t, Call("bids_for_bidder", <<"", "">>, b, 0))

\* The caller's for loop runs the generator: the transaction, reset by its
\* commit (API version 200), reads the range in the snapshot of this moment.
iterate(t) ==
  /\ pc[t] = "lazy"
  /\ pc' = [pc EXCEPT ![t] = "idle"]
  /\ call' = [call EXCEPT ![t] = NoCall]
  /\ last' = Last("return", call[t], "Value",
                  RangeRead(store, ListScope(call[t])), <<>>)
  /\ UNCHANGED <<store, ran, conflicted, ncalls, plan, accepted, closed,
                 seqStore, script, packed>>

\* The bids made while the logs are listed.
ListingBids ==
  {Call("submit_bid", a, b, v) : a \in Auctions, b \in {"A", "B"}, v \in {9, 18}}

listing_bid(t) == \E c \in ListingBids : Invoke(t, c)

NextLists ==
  \E t \in Threads :
    \/ listing_bid(t)
    \/ bids_for_auction(t)
    \/ bids_for_bidder(t)
    \/ iterate(t)
    \/ Commit(t)
    \/ Retry(t)

SpecLists == InitBids /\ [][NextLists]_vars

\* ------------------------------------------------------------ the key bytes

\* The longest name that is packed.
MaxNameLen == 2

\* Bytes that names are made of: NUL, the type code of a byte string, a
\* letter, the byte that escapes NUL.
NameAlphabet == {0, 1, 65, 255}

\* Names of bidders: every string of the alphabet up to the longest.
Names == UNION {[1..n -> NameAlphabet] : n \in 0..MaxNameLen}

\* The ASCII bytes of the words the source uses in keys.
AuctionsWord == <<97, 117, 99, 116, 105, 111, 110, 115>>

BidsWord == <<98, 105, 100, 115>>

BiddersWord == <<98, 105, 100, 100, 101, 114, 115>>

HighestBidWord == <<104, 105, 103, 104, 101, 115, 116, 95, 98, 105, 100>>

WinningBidderWord ==
  <<119, 105, 110, 110, 105, 110, 103, 95, 98, 105, 100, 100, 101, 114>>

NumBidsWord == <<110, 117, 109, 95, 98, 105, 100, 115>>

\* Names and descriptions of auctions: empty, sharing a prefix, holding NUL,
\* and equal to a field's word.
AuctionNames == {<<>>, <<65>>, <<65, 0>>, <<0, 1>>}

AuctionDescriptions == {<<>>, <<66>>, <<0>>, HighestBidWord}

\* Sequence numbers on both sides of the step from one byte to two.
SequenceNumbers == {1, 255, 256}

\* A tuple layer that writes NUL as it is.
NoEscape(bytes) == bytes

\* A byte string in the tuple layer: NUL is written NUL 0xFF.
RECURSIVE Escape(_)
Escape(bytes) ==
  IF bytes = <<>> THEN <<>>
  ELSE (IF Head(bytes) = 0 THEN <<0, 255>> ELSE <<Head(bytes)>>)
       \o Escape(Tail(bytes))

\* fdb.tuple.pack of one byte string (a Python 2 str): type code 0x01, the
\* escaped bytes, NUL.
PackStr(bytes) == <<1>> \o Escape(bytes) \o <<0>>

\* fdb.tuple.pack of one integer n >= 0: 0x14 plus the number of bytes, then
\* the bytes, the high ones first.
PackInt(n) ==
  IF n = 0 THEN <<20>>
  ELSE IF n < 256 THEN <<21, n>>
  ELSE <<22, n \div 256, n % 256>>

\* The raw prefix the directory layer gave to ('auction-kv',).
DirPrefix == <<21, 7>>

\* auction_kv['auctions'], ['bids'], ['bidders']: the raw prefixes.
AuctionsPrefix == DirPrefix \o PackStr(AuctionsWord)

BidsPrefix == DirPrefix \o PackStr(BidsWord)

BiddersPrefix == DirPrefix \o PackStr(BiddersWord)

\* tuple(self.name) packed: every character a byte string of its own.
RECURSIVE PackChars(_)
PackChars(name) ==
  IF name = <<>> THEN <<>>
  ELSE PackStr(<<Head(name)>>) \o PackChars(Tail(name))

\* A logical key.  kind: "auction" (field: "status", "highest_bid",
\* "winning_bidder", "num_bids"), "bidder" (field: "record", "num_bids"),
\* "auction_log" and "bidder_log" (the n-th entry of the log of the auction
\* or bidder named).
LogicalKey(kind, name, description, field, n) ==
  [kind |-> kind, name |-> name, description |-> description,
   field |-> field, n |-> n]

AuctionKeys ==
  {LogicalKey("auction", x, d, f, 0) :
     x \in AuctionNames, d \in AuctionDescriptions,
     f \in {"status", "highest_bid", "winning_bidder", "num_bids"}}

BidderKeys ==
  {LogicalKey("bidder", x, <<>>, f, 0) : x \in Names, f \in {"record", "num_bids"}}

LogKeysOfAuctions ==
  {LogicalKey("auction_log", x, d, "entry", n) :
     x \in AuctionNames, d \in AuctionDescriptions, n \in SequenceNumbers}

LogKeysOfBidders ==
  {LogicalKey("bidder_log", x, <<>>, "entry", n) :
     x \in Names, n \in SequenceNumbers}

\* Auction.get_packed_ids(auctions_ss), one key of the four.
PackAuction(name, description, field) ==
  AuctionsPrefix \o PackStr(name) \o PackStr(description)
  \o CASE field = "status" -> <<>>
        [] field = "highest_bid" -> PackStr(HighestBidWord)
        [] field = "winning_bidder" -> PackStr(WinningBidderWord)
        [] field = "num_bids" -> PackStr(NumBidsWord)

\* Bidder.get_packed_ids(bidders_ss), one key of the two.
PackBidder(name, field) ==
  BiddersPrefix
  \o IF field = "record" THEN PackChars(name)
     ELSE PackStr(name) \o PackStr(NumBidsWord)

\* bids_ss[key]: the raw prefix of the log of the packed key, and of its
\* range().
LogPrefix(key) == BidsPrefix \o PackStr(key)

\* The packed key of the auction or bidder that owns a log.
Owner(k) ==
  IF k.kind = "auction_log" THEN PackAuction(k.name, k.description, "status")
  ELSE PackBidder(k.name, "record")

\* The bytes of a logical key.
Pack(k) ==
  CASE k.kind = "auction" -> PackAuction(k.name, k.description, k.field)
    [] k.kind = "bidder" -> PackBidder(k.name, k.field)
    [] OTHER -> LogPrefix(Owner(k)) \o PackInt(k.n)

\* One more key is packed.
PackKey(k) ==
  /\ Len(packed) < 2
  /\ packed' = Append(packed, <<k, Pack(k)>>)
  /\ UNCHANGED <<store, pc, call, ran, conflicted, ncalls, plan, last,
                 accepted, closed, seqStore, script>>

pack_auction == \E k \in AuctionKeys : PackKey(k)

pack_bidder == \E k \in BidderKeys : PackKey(k)

pack_log == \E k \in LogKeysOfAuctions \cup LogKeysOfBidders : PackKey(k)

InitKeys ==
  /\ store = EmptyKV
  /\ pc = [t \in {} |-> "idle"]
  /\ plan = [t \in {} |-> NoCall]
  /\ script = <<>>
  /\ Begin({})

NextKeys == pack_auction \/ pack_bidder \/ pack_log

SpecKeys == InitKeys /\ [][NextKeys]_vars

\* ------------------------------------------------------------- reading aids

\* The counter stored at key k, 0 when the key is missing.
Counter(s, k) == IF k \in DOMAIN s THEN PyInt(s[k]) ELSE 0

AcceptedOn(a) == SelectSeq(accepted, LAMBDA x : x.auction = a)

AcceptedBy(b) == SelectSeq(accepted, LAMBDA x : x.bidder = b)

Values(seq) == {seq[i].value : i \in 1..Len(seq)}

Max(S) == CHOOSE x \in S : \A y \in S : y <= x

\* The step ran the body of op (a first run or a run after a conflict).
BodyRan(op) == last'.kind \in {"run", "return"} /\ last'.call.op = op

\* The step committed the writes of a call of op.
Committed(op) == last'.kind = "commit" /\ last'.call.op = op

\* The call of the last step has returned.
Returned(op) == last.kind \in {"return", "commit"} /\ last.call.op = op

\* ------------------------------------------------------------------- claims

\* C1: for every auction, in every committed state, highestBid is the largest
\* amount of the bids accepted on it (0 when none), winningBidderName is the
\* bidder of such a bid ('' when none), and bidCount is the number of
\* accepted bids.
C1_HighestIsMaxAccepted ==
  \A a \in Auctions :
    AuctionKey(a) \in DOMAIN store =>
      LET acc == AcceptedOn(a)
      IN /\ PyInt(store[NumBidsKey(a)]) = Len(acc)
         /\ IF acc = <<>>
            THEN /\ PyFloat(store[HighestBidKey(a)]) = 0
                 /\ store[WinningBidderKey(a)] = ""
            ELSE /\ PyFloat(store[HighestBidKey(a)]) = Max(Values(acc))
                 /\ \E i \in 1..Len(acc) :
                      /\ acc[i].value = Max(Values(acc))
                      /\ acc[i].bidder = store[WinningBidderKey(a)]

\* C2: an accepted bid commits its three effects together: every auction's
\* log holds as many entries as its bidCount and as bids were accepted on it,
\* every bidder's log as many as its bidCount and as bids of it were accepted,
\* the n-th entry of a log is the n-th such bid, and highest bid and winner
\* are those of the last entry of the auction's log.
C2_AllOrNothing ==
  /\ \A a \in Auctions :
       LET acc == AcceptedOn(a)
           log == LogKeys(store, AuctionKey(a))
       IN /\ Cardinality(log) = Len(acc)
          /\ Counter(store, NumBidsKey(a)) = Len(acc)
          /\ \A i \in 1..Len(acc) :
               /\ BidLogKey(AuctionKey(a), i) \in log
               /\ store[BidLogKey(AuctionKey(a), i)] = BidStr(acc[i])
          /\ acc # <<>> =>
               /\ store[HighestBidKey(a)] = PyStrFloat(acc[Len(acc)].value)
               /\ store[WinningBidderKey(a)] = acc[Len(acc)].bidder
          /\ (acc = <<>> /\ AuctionKey(a) \in DOMAIN store) =>
               /\ store[HighestBidKey(a)] = ZeroText
               /\ store[WinningBidderKey(a)] = ""
  /\ \A b \in Bidders :
       LET acc == AcceptedBy(b)
           log == LogKeys(store, BidderKey(b))
       IN /\ Cardinality(log) = Len(acc)
          /\ Counter(store, BidderNumBidsKey(b)) = Len(acc)
          /\ \A i \in 1..Len(acc) :
               /\ BidLogKey(BidderKey(b), i) \in log
               /\ store[BidLogKey(BidderKey(b), i)] = BidStr(acc[i])

\* C2 witness: a bidder has accepted bids on two auctions, counted together.
C2_Witness ==
  \E b \in Bidders :
    /\ Counter(store, BidderNumBidsKey(b)) = 2
    /\ \E i, j \in 1..Len(accepted) :
         /\ accepted[i].bidder = b /\ accepted[j].bidder = b
         /\ accepted[i].auction # accepted[j].auction

\* C3: the store is always the one that the calls give when run one at a
\* time in the order of their commits (a call that writes nothing taking its
\* place where it read), and every call returns what it returns in that run.
C3_Linearizable ==
  /\ [](store = seqStore)
  /\ [][last'.kind \in {"return", "commit"} =>
          /\ last'.tag = Body(seqStore, last'.call).tag
          /\ last'.val = Body(seqStore, last'.call).val]_vars

\* C3 witness: a bid whose body ran twice, after a conflict, has returned.
C3_Witness ==
  /\ Returned("submit_bid")
  /\ Len(last.printed) = 2
  /\ store = seqStore

\* The body of submit_bid runs with an amount not above the highest bid of
\* an auction that exists.
LowBidRun ==
  /\ BodyRan("submit_bid")
  /\ AuctionKey(last'.call.auction) \in DOMAIN store
  /\ last'.call.value <= PyFloat(store[HighestBidKey(last'.call.auction)])

\* C4 as claimed: a bid not above the highest bid is always rejected with
\* BidTooLow.
C4_AlwaysBidTooLow ==
  [][LowBidRun => last'.kind = "return" /\ last'.tag = "BidTooLow"]_vars

\* C4 amended: a bid not above the highest bid is always rejected, with
\* BidTooLow on an open auction and with AuctionClosed on a closed one, and
\* no bid is committed that is not above the highest bid at its commit.
C4_LowBidRejected ==
  [][/\ LowBidRun =>
          /\ last'.kind = "return"
          /\ last'.tag = IF store[AuctionKey(last'.call.auction)] = "CLOSED"
                         THEN "AuctionClosed" ELSE "BidTooLow"
     /\ Committed("submit_bid") =>
          last'.call.value > PyFloat(store[HighestBidKey(last'.call.auction)])
    ]_vars

\* C4 witness: a bid equal to a highest bid above 0 was rejected as too low.
C4_Witness ==
  /\ Returned("submit_bid")
  /\ last.tag = "BidTooLow"
  /\ last.call.value > 0
  /\ last.call.value = PyFloat(store[HighestBidKey(last.call.auction)])

\* C5: the bids accepted on an auction one after the other are of different
\* bidders; a body run for the bidder who is winning ends in a rejection
\* whatever the amount, and no bid is committed for the bidder who is winning
\* at its commit.
C5_WinnerCannotRebid ==
  /\ [](\A a \in Auctions :
          LET acc == AcceptedOn(a)
          IN \A i \in 1..(Len(acc) - 1) : acc[i].bidder # acc[i + 1].bidder)
  /\ [][/\ ( /\ BodyRan("submit_bid")
             /\ AuctionKey(last'.call.auction) \in DOMAIN store
             /\ last'.call.bidder = store[WinningBidderKey(last'.call.auction)] )
          => /\ last'.kind = "return"
             /\ last'.tag \in {"AuctionClosed", "BidTooLow", "AlreadyWinning"}
        /\ Committed("submit_bid") =>
             last'.call.bidder # store[WinningBidderKey(last'.call.auction)]
       ]_vars

\* C5 witness: the winner of an accepted bid offered more and was rejected.
C5_Witness ==
  /\ Returned("submit_bid")
  /\ last.tag = "AlreadyWinning"
  /\ last.call.value > PyFloat(store[HighestBidKey(last.call.auction)])
  /\ AcceptedOn(last.call.auction) # <<>>
  /\ last.call.bidder # ""

\* C6: a run of the body of submit_bid on an auction that a committed
\* close_auction closed ends in AuctionClosed, for any bidder and amount.
C6_ClosedRejectsBids ==
  [][(BodyRan("submit_bid") /\ last'.call.auction \in closed) =>
       last'.kind = "return" /\ last'.tag = "AuctionClosed"]_vars

\* C6 witness: a bid above the highest bid, by a registered bidder who is
\* not winning, was rejected on a closed auction.
C6_Witness ==
  /\ Returned("submit_bid")
  /\ last.tag = "AuctionClosed"
  /\ last.call.auction \in closed
  /\ last.call.value > PyFloat(store[HighestBidKey(last.call.auction)])
  /\ last.call.bidder # store[WinningBidderKey(last.call.auction)]
  /\ BidderNumBidsKey(last.call.bidder) \in DOMAIN store

\* C7: add_auction on an auction that exists returns AlreadyExists without a
\* commit and leaves the whole store as it was.
C7_SecondCreateChangesNothing ==
  [][(last'.call.op = "add_auction"
      /\ AuctionKey(last'.call.auction) \in DOMAIN store) =>
       /\ last'.kind = "return"
       /\ last'.tag = "AlreadyExists"
       /\ store' = store]_vars

\* C7 witness: add_auction was refused on an auction with an accepted bid.
C7_Witness ==
  /\ Returned("add_auction")
  /\ last.tag = "AlreadyExists"
  /\ Counter(store, NumBidsKey(last.call.auction)) > 0

\* The scopes that have a log, each with the key of its counter.
Scopes ==
  {<<AuctionKey(a), NumBidsKey(a)>> : a \in Auctions}
  \cup {<<BidderKey(b), BidderNumBidsKey(b)>> : b \in Bidders \cup {"C"}}

\* C8: the sequence numbers of every log are 1..bidCount of its owner; a
\* committed entry keeps its key and its value for ever, and an entry that
\* appears is numbered with the owner's counter after the commit.
C8_LogsAppendOnly ==
  /\ [](\A sc \in Scopes :
          LogNumbers(store, sc[1]) = 1..Counter(store, sc[2]))
  /\ [][/\ \A k \in DOMAIN store :
             k[1] = "bids" => k \in DOMAIN store' /\ store'[k] = store[k]
        /\ \A sc \in Scopes :
             \A k \in LogKeys(store', sc[1]) \ LogKeys(store, sc[1]) :
               k[3] = Counter(store', sc[2])
       ]_vars

\* C8 witness: a log holds two entries and a repeated registration or
\* creation has just been refused.
C8_Witness ==
  /\ last.kind = "return"
  /\ last.call.op \in {"add_auction", "add_bidder"}
  /\ last.tag = "AlreadyExists"
  /\ \E sc \in Scopes : LogNumbers(store, sc[1]) = {1, 2}

\* The stress run is over: every thread has made its call and returned.
StressDone == \A t \in DOMAIN pc : pc[t] = "idle" /\ plan[t].op = "submit_bid"

StressAuction == plan[CHOOSE t \in DOMAIN plan : TRUE].auction

StressMax == Max({plan[t].value : t \in DOMAIN plan})

C10_OneOutcome ==
  (Returned("submit_bid") /\ last.tag # "TypeError") =>
    /\ Len(last.printed) = 1
    /\ (last.printed[1] = "NewHighestBid") <=> (last.tag = "Accepted")

\* The script of the end-to-end scenario: A bids 5.0, B bids 5.0, B bids 7.0
\* (9 and 18 fine units).
Scenario ==
  <<AuctionCall("add_auction", Pen),
    Call("add_bidder", <<"", "">>, "A", 0),
    Call("add_bidder", <<"", "">>, "B", 0),
    Call("submit_bid", Pen, "A", 9),
    Call("submit_bid", Pen, "B", 9),
    Call("submit_bid", Pen, "B", 18)>>

\* The log entries of the two bids the scenario expects to be accepted.
EntryA5 == BidStr([bidder |-> "A", auction |-> Pen, value |-> 9])

EntryB7 == BidStr([bidder |-> "B", auction |-> Pen, value |-> 18])

\* The store the scenario expects once the auction and the bidders exist.
ScenarioSetUp ==
  Put(Put(Put(Put(Put(Put(Put(Put(EmptyKV,
    AuctionKey(Pen), "OPEN"),
    HighestBidKey(Pen), ZeroText),
    WinningBidderKey(Pen), ""),
    NumBidsKey(Pen), PyStrInt(0)),
    BidderKey("A"), BidderStr("A")),
    BidderNumBidsKey("A"), PyStrInt(0)),
    BidderKey("B"), BidderStr("B")),
    BidderNumBidsKey("B"), PyStrInt(0))

\* ... once A's bid of 5.0 is accepted.
ScenarioFirstBid ==
  Put(Put(Put(Put(Put(Put(ScenarioSetUp,
    HighestBidKey(Pen), PyStrFloat(9)),
    WinningBidderKey(Pen), "A"),
    NumBidsKey(Pen), PyStrInt(1)),
    BidLogKey(AuctionKey(Pen), 1), EntryA5),
    BidderNumBidsKey("A"), PyStrInt(1)),
    BidLogKey(BidderKey("A"), 1), EntryA5)

\* ... once B's bid of 7.0 is accepted.
ScenarioSecondBid ==
  Put(Put(Put(Put(Put(Put(ScenarioFirstBid,
    HighestBidKey(Pen), PyStrFloat(18)),
    WinningBidderKey(Pen), "B"),
    NumBidsKey(Pen), PyStrInt(2)),
    BidLogKey(AuctionKey(Pen), 2), EntryB7),
    BidderNumBidsKey("B"), PyStrInt(1)),
    BidLogKey(BidderKey("B"), 1), EntryB7)

\* C11: in the end-to-end scenario A's bid of 5.0 is accepted (highest bid
\* 5.0, winner A); B's bid of 5.0 is rejected with BidTooLow and the store is
\* as it was; B's bid of 7.0 is accepted (highest bid 7.0, winner B) and the
\* auction's log is then [A:5.0, B:7.0], A's log [5.0] and B's log [7.0].
C11_EndToEnd ==
  (script = Scenario /\ pc["main"] = "idle") =>
    /\ ncalls = 3 => store = ScenarioSetUp
    /\ ncalls = 4 =>
         /\ last.tag = "Accepted"
         /\ store = ScenarioFirstBid
         /\ PyFloat(store[HighestBidKey(Pen)]) = 9
         /\ store[WinningBidderKey(Pen)] = "A"
    /\ ncalls = 5 =>
         /\ last.tag = "BidTooLow"
         /\ store = ScenarioFirstBid
    /\ ncalls = 6 =>
         /\ last.tag = "Accepted"
         /\ store = ScenarioSecondBid
         /\ PyFloat(store[HighestBidKey(Pen)]) = 18
         /\ store[WinningBidderKey(Pen)] = "B"
         /\ LogNumbers(store, AuctionKey(Pen)) = {1, 2}
         /\ LogNumbers(store, BidderKey("A")) = {1}
         /\ LogNumbers(store, BidderKey("B")) = {1}
         /\ accepted = <<[bidder |-> "A", auction |-> Pen, value |-> 9],
                         [bidder |-> "B", auction |-> Pen, value |-> 18]>>

\* C11 witness: the scenario has run to its end and B's bid of 7.0 is in.
C11_Witness ==
  /\ script = Scenario
  /\ ncalls = 6
  /\ pc["main"] = "idle"
  /\ last.kind = "commit"
  /\ last.call = Scenario[6]
  /\ Len(accepted) = 2

\* The step is a call of a listing or the run of its generator.
ListStep == last'.call.op \in {"bids_for_auction", "bids_for_bidder"}

\* The bids accepted so far for the scope a listing reads.
AcceptedFor(c) ==
  IF c.op = "bids_for_auction" THEN AcceptedOn(c.auction) ELSE AcceptedBy(c.bidder)

\* C12: a listing changes no stored key, and what it yields is the log of
\* its auction (its bidder) as committed when it reads: entry n is the n-th
\* bid accepted for that auction (by that bidder) under sequence number n,
\* with no entry of another scope, none missing and none after a gap, also
\* while bids are being submitted.
C12_ListsCommittedLog ==
  [][ListStep =>
       /\ store' = store
       /\ last'.kind = "return" =>
            LET c == last'.call
                acc == AcceptedFor(c)
            IN /\ Len(last'.val) = Len(acc)
               /\ \A n \in 1..Len(acc) :
                    /\ last'.val[n][1] = BidLogKey(ListScope(c), n)
                    /\ last'.val[n][2] = BidStr(acc[n])]_vars

\* C12 witness: a bidder's log of two entries, one per auction, was listed
\* while a bid of another bidder was waiting to commit.
C12_Witness ==
  /\ last.kind = "return"
  /\ last.call.op = "bids_for_bidder"
  /\ Len(last.val) = 2
  /\ last.val[1][2].name # last.val[2][2].name
  /\ \E t \in DOMAIN pc : pc[t] = "ran" /\ call[t].op = "submit_bid"

\* The order of keys in the store: bytes compared one by one.
RECURSIVE BytesLess(_, _)
BytesLess(x, y) ==
  IF y = <<>> THEN FALSE
  ELSE IF x = <<>> THEN TRUE
  ELSE IF Head(x) # Head(y) THEN Head(x) < Head(y)
  ELSE BytesLess(Tail(x), Tail(y))

StartsWith(x, prefix) ==
  Len(x) >= Len(prefix) /\ SubSeq(x, 1, Len(prefix)) = prefix

IsLogKey(k) == k.kind \in {"auction_log", "bidder_log"}

SameOwner(j, k) ==
  j.kind = k.kind /\ j.name = k.name /\ j.description = k.description

\* C13: two different logical keys (a field of an auction, a field of a
\* bidder, an entry of a log) are never packed to the same bytes, whatever
\* the names (empty, sharing a prefix, holding NUL or 0xFF); a log's key lies
\* under the prefix of a log only if it is a key of that log, and the keys of
\* one log sort by their numbers.
C13_PackInjective ==
  \A i, j \in 1..Len(packed) :
    LET k == packed[i][1]
        m == packed[j][1]
    IN /\ k # m => packed[i][2] # packed[j][2]
       /\ (IsLogKey(k) /\ IsLogKey(m)) =>
            /\ StartsWith(packed[i][2], LogPrefix(Owner(m))) <=> SameOwner(k, m)
            /\ SameOwner(k, m) =>
                 (k.n < m.n <=> BytesLess(packed[i][2], packed[j][2]))

\* C13 witness: the logs of a bidder with the empty name and of one whose
\* name holds NUL are packed, with numbers of one byte and of two.
C13_Witness ==
  /\ Len(packed) = 2
  /\ packed[1][1].kind = "bidder_log" /\ packed[1][1].name = <<>>
  /\ packed[2][1].kind = "bidder_log" /\ packed[2][1].name = <<0, 65>>
  /\ packed[1][1].n = 255 /\ packed[2][1].n = 256
  /\ packed[1][2] # packed[2][2]

\* C14: with threads that go on and calls that are finitely many, every call
\* returns: a call whose body has run and waits to commit, or whose commit
\* met a conflict, comes to its end.
C14_EveryCallReturns ==
  \A t \in StressThreads : (pc[t] # "idle") ~> (pc[t] = "idle")

\* C14 witness: a bid and the close of its auction were in conflict, the
\* bid's body ran again, and all calls have returned.
C14_Witness ==
  /\ \A t \in DOMAIN pc : pc[t] = "idle"
  /\ Returned("submit_bid")
  /\ last.tag = "AuctionClosed"
  /\ Len(last.printed) = 2
  /\ last.call.auction \in closed

\* C15: is_auction_open and winning_bid leave every stored key as it is, and
\* on an auction that was never created they end with the NotFound outcome.
C15_AbsentIsNotFound ==
  [][last'.call.op \in {"is_auction_open", "winning_bid"} =>
       /\ store' = store
       /\ AuctionKey(last'.call.auction) \notin DOMAIN store =>
            last'.tag = "NotFound"]_vars

\* The stored state of an auction that a bid writes: highest bid, winner,
\* count, and the entries of its log.
Standing(s, a) ==
  [k \in {HighestBidKey(a), WinningBidderKey(a), NumBidsKey(a)}
          \cup LogKeys(s, AuctionKey(a)) |-> s[k]]

\* C16: once a close_auction on an auction that exists has committed, the
\* auction's status is CLOSED in every later state, and its highest bid,
\* winner, count and log stay as they are; no bid on it commits, not even
\* one whose body ran while the auction was open.
C16_ClosedIsFinal ==
  /\ [](\A a \in closed : store[AuctionKey(a)] = "CLOSED")
  /\ [][/\ \A a \in closed : Standing(store', a) = Standing(store, a)
        /\ Committed("submit_bid") => last'.call.auction \notin closed]_vars

\* C16 witness: on an auction with an accepted bid, a higher bid whose body
\* ran while the auction was open met the close at its commit, ran again
\* and was rejected.
C16_Witness ==
  /\ Returned("submit_bid")
  /\ last.printed = <<"NewHighestBid", "AuctionClosed">>
  /\ last.call.auction \in closed
  /\ store[AuctionKey(last.call.auction)] = "CLOSED"
  /\ Counter(store, NumBidsKey(last.call.auction)) = 1
  /\ last.call.value > PyFloat(store[HighestBidKey(last.call.auction)])

\* The body of submit_bid runs for a bid that is to be rejected: its auction
\* is absent or closed, its amount is not above the highest bid, or its
\* bidder is the auction's winner.
RejectedBidRun ==
  /\ BodyRan("submit_bid")
  /\ LET a == last'.call.auction
     IN \/ AuctionKey(a) \notin DOMAIN store
        \/ store[AuctionKey(a)] = "CLOSED"
        \/ last'.call.value <= PyFloat(store[HighestBidKey(a)])
        \/ last'.call.bidder = store[WinningBidderKey(a)]

\* C17: a submit_bid that is rejected (auction absent, auction closed,
\* amount not above the highest bid, bidder already winning) returns with
\* that outcome, has nothing to commit, and leaves every stored key as it
\* was.
C17_RejectedBidWritesNothing ==
  [][RejectedBidRun =>
       /\ last'.kind = "return"
       /\ last'.tag \in {"NotFound", "AuctionClosed", "BidTooLow",
                         "AlreadyWinning"}
       /\ store' = store]_vars

\* C17 witness: a bid on an auction that was never added was rejected while
\* another auction holds an accepted bid.
C17_Witness ==
  /\ Returned("submit_bid")
  /\ last.tag = "NotFound"
  /\ Len(accepted) = 1
  /\ BidderNumBidsKey(last.call.bidder) \in DOMAIN store

\* The body of submit_bid runs for a bid that passes the four tests on the
\* auction, by a bidder who has no counter.
UnregisteredBidRun ==
  /\ BodyRan("submit_bid")
  /\ LET a == last'.call.auction
     IN /\ AuctionKey(a) \in DOMAIN store
        /\ store[AuctionKey(a)] = "OPEN"
        /\ last'.call.value > PyFloat(store[HighestBidKey(a)])
        /\ last'.call.bidder # store[WinningBidderKey(a)]
  /\ BidderNumBidsKey(last'.call.bidder) \notin DOMAIN store

\* C18: a submit_bid that passes the four tests on the auction, by a bidder
\* who was never registered, commits nothing: the call ends without a commit
\* and the auction's highest bid, winner, count and log, like every other
\* key, are as they were.
C18_UnregisteredBidCommitsNothing ==
  [][UnregisteredBidRun =>
       /\ last'.kind = "return"
       /\ last'.tag \notin {"Accepted", "NotFound", "AuctionClosed",
                            "BidTooLow", "AlreadyWinning"}
       /\ store' = store]_vars

\* C18 witness: a bid above the highest bid of an auction with an accepted
\* bid, by a bidder who has no counter, has printed the new highest bid and
\* ended, and the auction holds the one bid it held.
C18_Witness ==
  /\ Returned("submit_bid")
  /\ last.printed = <<"NewHighestBid">>
  /\ BidderNumBidsKey(last.call.bidder) \notin DOMAIN store
  /\ Counter(store, NumBidsKey(last.call.auction)) = 1
  /\ LogNumbers(store, AuctionKey(last.call.auction)) = {1}
  /\ store[WinningBidderKey(last.call.auction)] # last.call.bidder
  /\ last.call.value > PyFloat(store[HighestBidKey(last.call.auction)])

\* The body of submit_bid runs for a bid above 0 by a registered bidder on an
\* open auction on which no bid was accepted.
FirstBidRun ==
  /\ BodyRan("submit_bid")
  /\ LET a == last'.call.auction
     IN /\ AuctionKey(a) \in DOMAIN store
        /\ store[AuctionKey(a)] = "OPEN"
        /\ AcceptedOn(a) = <<>>
  /\ last'.call.value > 0
  /\ BidderKey(last'.call.bidder) \in DOMAIN store
  /\ BidderNumBidsKey(last'.call.bidder) \in DOMAIN store

\* C19: on an open auction on which no bid was accepted, a bid above 0 by a
\* registered bidder, whatever its name, is taken as the new highest bid and
\* is not rejected.
C19_FirstBidAccepted ==
  [][FirstBidRun => last'.tag = "Accepted"]_vars

\* The amount a log entry shows ("$x.xx"), as a bid value.
LogAmount(entry) == entry.value * CentStep

\* C20: in every state the entries of an auction's log, read by their
\* numbers, show amounts above 0 that grow from each entry to the next, two
\* entries in a row are of different bidders, and the last entry shows the
\* stored winner and the stored highest bid.
C20_LogStrictlyIncreasing ==
  \A a \in Auctions :
    LET log == RangeRead(store, AuctionKey(a))
        n == Len(log)
    IN /\ \A i \in 1..n : LogAmount(log[i][2]) > 0
       /\ \A i \in 1..(n - 1) :
            /\ LogAmount(log[i][2]) < LogAmount(log[i + 1][2])
            /\ log[i][2].bidder # log[i + 1][2].bidder
       /\ n > 0 =>
            /\ log[n][2].bidder = store[WinningBidderKey(a)]
            /\ LogAmount(log[n][2]) = PyFloat(store[HighestBidKey(a)])

====
